---- MODULE Spec2Model ----
(***************************************************************************)
(* Model of trade/data/history.py (and its caller in dataprovider.py):     *)
(* trimming of a ticker list, the file cache of one (pair, interval) and   *)
(* the incremental download that merges cached and freshly fetched data.   *)
(*                                                                         *)
(* A candle is represented by its timestamp (element [0] of the row); the  *)
(* code never reads the other columns.  The clock is counted in minutes    *)
(* where the code counts seconds, so that every value fits TLC's integers; *)
(* the factor 1000 between clock units and candle timestamps is kept.      *)
(***************************************************************************)
EXTENDS Integers, Sequences, FiniteSets, TLC

VARIABLES files, remote, op, nops, runs

vars == <<files, remote, op, nops, runs>>

(* ------------------------------ bounds --------------------------------- *)

\* longest cache file of an initial state
MaxLen == 4
\* most candles the exchange holds for a pair
MaxFetch == 2
\* number of operations in one behaviour
MaxOps == 2
\* largest row offset / row count of an index- or line-typed boundary
MaxIdx == 2
\* largest date-typed boundary, in clock units
MaxDate == 2

(* --------------------------- value domains ----------------------------- *)

\* candle timestamps (ms) of the toy scenarios of the specification
Timestamps == {1000, 1300, 1600, 1900}

Min(S) == CHOOSE x \in S : \A y \in S : x <= y

RECURSIVE SetToSeq(_)
SetToSeq(S) == IF S = {} THEN <<>> ELSE <<Min(S)>> \o SetToSeq(S \ {Min(S)})

\* the strictly increasing lists of at most n of the timestamps T
IncSeqsOf(T, n) == {SetToSeq(S) : S \in {X \in SUBSET T : Cardinality(X) <= n}}
IncSeqs(n) == IncSeqsOf(Timestamps, n)

\* the timestamps of the lists handed to trim_tickerlist alone: one more, early
\* enough for a date-typed start to pass it
TrimStamps == {150} \cup Timestamps

StrictlyIncreasing(s) == \A i \in 1..(Len(s) - 1) : s[i] < s[i + 1]

Last(s) == s[Len(s)]

\* pairs are strings, kept as sequences of characters so that replace() is computed
PairAB == <<"a", "/", "b">>
PairA_B == <<"a", "_", "b">>
PairCD == <<"c", "/", "d">>
Pairs == {PairAB, PairA_B, PairCD}
Intervals == {"5m"}

(* ------------------------------ TimeRange ------------------------------ *)

\* trade.arguments.TimeRange(starttype, stoptype, startts, stopts); the type None
\* is written "none".  NoTimeRange stands for the argument timerange=None.
TimeRange(starttype, stoptype, startts, stopts) ==
    [starttype |-> starttype, stoptype |-> stoptype, startts |-> startts, stopts |-> stopts]

NoTimeRange == TimeRange("absent", "absent", 0, 0)

\* the default argument TimeRange(None, None, 0, 0)
DefaultTimeRange == TimeRange("none", "none", 0, 0)

\* truth value of `if timerange:` (a non-empty tuple is true, None is false)
Given(timerange) == timerange # NoTimeRange

StartRanges ==
    {DefaultTimeRange}
    \cup {TimeRange("date", "none", t, 0) : t \in 0..MaxDate}
    \cup {TimeRange("index", "none", k, 0) : k \in 0..MaxIdx}
    \cup {TimeRange("line", "none", k, 0) : k \in 0..MaxIdx}

\* the ranges handed to trim_tickerlist: the start-typed ones and ones with a
\* stop boundary (a row count, a row offset below or above the start offset)
TrimRanges ==
    StartRanges
    \cup {TimeRange("none", "line", 0, n) : n \in 0..MaxIdx}
    \cup {TimeRange("index", "index", k, m) : k, m \in 0..MaxIdx}

StopLineRange == TimeRange("none", "line", 0, 0 - 1)

\* the ranges handed to the download
SyncRanges ==
    {NoTimeRange, DefaultTimeRange, StopLineRange,
     TimeRange("date", "none", 1, 0), TimeRange("date", "none", MaxDate, 0)}

\* the ranges handed to the loaders
LoadRanges == {DefaultTimeRange, TimeRange("date", "none", 1, 0)}

\* the ranges handed to load_tickerdata_file
FileRanges == {NoTimeRange, TimeRange("date", "none", MaxDate, 0), TimeRange("index", "none", MaxIdx, 0)}

(* ------------------------------ trimming ------------------------------- *)

\* Python's tickerlist[a:b] for 0 <= a
PySlice(s, a, b) ==
    LET hi == IF b > Len(s) THEN Len(s) ELSE b
    IN  IF a >= hi THEN <<>> ELSE SubSeq(s, a + 1, hi)

\* the while loop of lines 37-39: advance start_index while the row is too early
RECURSIVE DateScan(_, _, _)
DateScan(tickerlist, start_index, limit) ==
    IF start_index < Len(tickerlist) /\ tickerlist[start_index + 1] < limit
    THEN DateScan(tickerlist, start_index + 1, limit)
    ELSE start_index

TrimStartIndex(tickerlist, timerange) ==
    IF timerange.starttype = "index" THEN timerange.startts
    ELSE IF timerange.starttype = "date"
         THEN DateScan(tickerlist, 0, timerange.startts * 100)
         ELSE 0

TrimStopIndex(tickerlist, timerange) ==
    IF timerange.starttype = "line" THEN timerange.startts ELSE Len(tickerlist)

\* a variant that reads the row count of a line-typed boundary from the stop side
TrimTickerlistStopLine(tickerlist, timerange) ==
    IF tickerlist = <<>> THEN [raised |-> "none", val |-> tickerlist]
    ELSE LET start_index == TrimStartIndex(tickerlist, timerange)
             stop_index == IF timerange.stoptype = "line" THEN timerange.stopts
                           ELSE Len(tickerlist)
         IN  IF start_index > stop_index
             THEN [raised |-> "ValueError", val |-> <<>>]
             ELSE [raised |-> "none", val |-> PySlice(tickerlist, start_index, stop_index)]

\* a variant that resolves a line-typed start as a row offset
TrimTickerlistLineAsOffset(tickerlist, timerange) ==
    IF tickerlist = <<>> THEN [raised |-> "none", val |-> tickerlist]
    ELSE LET start_index == IF timerange.starttype = "line" THEN timerange.startts
                            ELSE TrimStartIndex(tickerlist, timerange)
             stop_index == Len(tickerlist)
         IN  IF start_index > stop_index
             THEN [raised |-> "ValueError", val |-> <<>>]
             ELSE [raised |-> "none", val |-> PySlice(tickerlist, start_index, stop_index)]

\* trim_tickerlist: the rows [start_index, stop_index) or ValueError
TrimTickerlist(tickerlist, timerange) ==
    IF tickerlist = <<>> THEN [raised |-> "none", val |-> tickerlist]
    ELSE LET start_index == TrimStartIndex(tickerlist, timerange)
             stop_index == TrimStopIndex(tickerlist, timerange)
         IN  IF start_index > stop_index
             THEN [raised |-> "ValueError", val |-> <<>>]
             ELSE [raised |-> "none", val |-> PySlice(tickerlist, start_index, stop_index)]

(* ------------------------------ the cache ------------------------------ *)

\* pair.replace('/', '_')
ReplaceSlash(pair) == [i \in DOMAIN pair |-> IF pair[i] = "/" THEN "_" ELSE pair[i]]

\* path.joinpath(f'{pair_s}-{ticker_interval}.json'), under one data directory
FileName(pair, ticker_interval) == [pair_s |-> ReplaceSlash(pair), interval |-> ticker_interval]

FileNames == {FileName(p, i) : p \in Pairs, i \in Intervals}

\* content of a storage unit: no file, a file that is not JSON, or a ticker list
AbsentFile == [st |-> "absent", data |-> <<>>]
CorruptFile == [st |-> "corrupt", data |-> <<>>]
JsonFile(data) == [st |-> "json", data |-> data]

\* misc.json_load / misc.file_load_json on the text of a file.  A file that is
\* not JSON either degrades to "no data" or raises, the reader's choice (degrade).
JsonLoad(file, degrade) ==
    IF file.st = "json" THEN [raised |-> "none", data |-> file.data]
    ELSE IF degrade THEN [raised |-> "none", data |-> <<>>]
         ELSE [raised |-> "JSONDecodeError", data |-> <<>>]

\* misc.file_load_json: None (here: no data) when the file does not exist
FileLoadJson(file, degrade) ==
    IF file.st = "absent" THEN [raised |-> "none", data |-> <<>>]
    ELSE JsonLoad(file, degrade)

\* misc.file_dump_json: the whole file is replaced by the dumped list
FileDumpJson(fs, filename, data) == [fs EXCEPT ![filename] = JsonFile(data)]

\* constant.TICKER_INTERVAL_MINUTES
TickerIntervalMinutes(tick_interval) == IF tick_interval = "5m" THEN 5 ELSE 1

(* ------------------------------ the clock ------------------------------ *)

\* arrow.utcnow().shift(minutes=n).timestamp and .shift(days=n).float_timestamp;
\* one clock unit is a minute
ShiftMinutes(now, n) == now + n
ShiftDays(now, n) == now + n * 1440

\* what the surroundings contribute to one call: the clock, the candles the
\* exchange holds, what goes wrong (the exchange raises, the exchange answers
\* without regard to since_ms, the write raises), the reader's choice
Env(now, candles, fault, degrade) ==
    [now |-> now, candles |-> candles, fault |-> fault, degrade |-> degrade]

Nows == {7}
Faults == {"none", "fetch", "stale", "dump"}
QuietEnv == Env(0, <<>>, "none", TRUE)

\* Exchange.get_history(pair, tick_interval, since_ms): the candles from since_ms
\* on, in ascending order; a stale answer breaks that contract
GetHistory(env, since_ms) ==
    IF env.fault = "stale" THEN env.candles
    ELSE SelectSeq(env.candles, LAMBDA c : c >= since_ms)

(* ---------------------------- synchronisation -------------------------- *)

\* Optional[int]: None or an integer
None == [some |-> FALSE, v |-> 0]
Some(v) == [some |-> TRUE, v |-> v]
\* truth value of `since_ms` in a condition: None and 0 are false
Truthy(x) == x.some /\ x.v # 0

\* lines 136-143: the start the caller asked for
RequestedSince(tick_interval, timerage, now) ==
    IF ~Given(timerage) THEN None
    ELSE IF timerage.starttype = "date" THEN Some(timerage.startts * 1000)
    ELSE IF timerage.stoptype = "line"
         THEN Some(ShiftMinutes(now, timerage.stopts * TickerIntervalMinutes(tick_interval)) * 1000)
         ELSE None

\* a variant that keeps the last row
PopNothing(data) == data

\* data.pop() of a non-empty list
Pop(data) == IF data = <<>> THEN data ELSE SubSeq(data, 1, Len(data) - 1)

\* lines 145-153: the rows of the cache file without the last one
ReadCache(file, degrade) ==
    IF file.st = "absent" THEN [raised |-> "none", data |-> <<>>]
    ELSE IF file.st = "json" THEN [raised |-> "none", data |-> Pop(file.data)]
         ELSE JsonLoad(file, degrade)

\* a variant that keeps the cached rows and the start the caller asked for
ChooseUpdateKeepRequested(read, since_ms) ==
    IF read.raised # "none" THEN [raised |-> read.raised, data |-> <<>>, since_ms |-> None]
    ELSE IF read.data = <<>> THEN [raised |-> "none", data |-> <<>>, since_ms |-> since_ms]
    ELSE IF Truthy(since_ms)
         THEN [raised |-> "none", data |-> read.data, since_ms |-> since_ms]
         ELSE [raised |-> "none", data |-> read.data, since_ms |-> Some(Last(read.data) + 1)]

\* a variant that continues at the last cached row instead of after it
ChooseUpdateFromLast(read, since_ms) ==
    IF read.raised # "none" THEN [raised |-> read.raised, data |-> <<>>, since_ms |-> None]
    ELSE IF read.data = <<>> THEN [raised |-> "none", data |-> <<>>, since_ms |-> since_ms]
    ELSE IF Truthy(since_ms) /\ since_ms.v < read.data[1]
         THEN [raised |-> "none", data |-> <<>>, since_ms |-> since_ms]
         ELSE [raised |-> "none", data |-> read.data, since_ms |-> Some(Last(read.data))]

\* lines 154-159: keep the cached rows and continue after them, or drop them
\* when the requested start is earlier than the first of them
ChooseUpdate(read, since_ms) ==
    IF read.raised # "none" THEN [raised |-> read.raised, data |-> <<>>, since_ms |-> None]
    ELSE IF read.data = <<>> THEN [raised |-> "none", data |-> <<>>, since_ms |-> since_ms]
    ELSE IF Truthy(since_ms) /\ since_ms.v < read.data[1]
         THEN [raised |-> "none", data |-> <<>>, since_ms |-> since_ms]
         ELSE [raised |-> "none", data |-> read.data, since_ms |-> Some(Last(read.data) + 1)]

\* load_cached_data_for_updating: the trusted rows and the cursor
LoadCachedDataForUpdating(file, tick_interval, timerage, env) ==
    ChooseUpdate(ReadCache(file, env.degrade),
                 RequestedSince(tick_interval, timerage, env.now))

\* lines 188-190: the cursor handed to exchange.get_history
FetchSince(since_ms, now) == IF Truthy(since_ms) THEN since_ms.v ELSE ShiftDays(now, 30) * 1000

\* result of download_pair_history
SyncResult(ret, fs, fetched, since, trusted, new_data, caught) ==
    [ret |-> ret, files |-> fs, fetched |-> fetched, since |-> since,
     trusted |-> trusted, new_data |-> new_data, caught |-> caught]

\* a variant that writes the file before the log line that reads data[0][0]
MergeAndDumpWriteFirst(fs, filename, data, since, new_data, fault) ==
    IF fault = "dump"
    THEN SyncResult(FALSE, fs, TRUE, since, data, new_data, "OSError")
    ELSE IF data \o new_data = <<>>
    THEN SyncResult(FALSE, FileDumpJson(fs, filename, data \o new_data), TRUE, since, data,
                    new_data, "IndexError")
    ELSE SyncResult(TRUE, FileDumpJson(fs, filename, data \o new_data), TRUE, since, data,
                    new_data, "none")

\* lines 191-198: extend the trusted rows by the answer and write the file
MergeAndDump(fs, filename, data, since, new_data, fault) ==
    \* line 193 reads data[0][0] of the merged list
    IF data \o new_data = <<>>
    THEN SyncResult(FALSE, fs, TRUE, since, data, new_data, "IndexError")
    ELSE IF fault = "dump"
    THEN SyncResult(FALSE, fs, TRUE, since, data, new_data, "OSError")
    ELSE SyncResult(TRUE, FileDumpJson(fs, filename, data \o new_data), TRUE, since, data,
                    new_data, "none")

\* lines 183-198: what download_pair_history does with the loaded cache
DownloadFrom(fs, filename, cached, env) ==
    IF cached.raised # "none"
    THEN SyncResult(FALSE, fs, FALSE, 0 - 1, <<>>, <<>>, cached.raised)
    \* line 183 reads data[1][0] of a non-empty list
    ELSE IF cached.data # <<>> /\ Len(cached.data) < 2
    THEN SyncResult(FALSE, fs, FALSE, 0 - 1, cached.data, <<>>, "IndexError")
    ELSE IF env.fault = "fetch"
    THEN SyncResult(FALSE, fs, TRUE, FetchSince(cached.since_ms, env.now), cached.data,
                    <<>>, "ExchangeError")
    ELSE MergeAndDump(fs, filename, cached.data, FetchSince(cached.since_ms, env.now),
                      GetHistory(env, FetchSince(cached.since_ms, env.now)), env.fault)

\* download_pair_history: every exception is caught and turned into False
DownloadPairHistory(fs, pair, tick_interval, timerange, env) ==
    DownloadFrom(fs, FileName(pair, tick_interval),
                 LoadCachedDataForUpdating(fs[FileName(pair, tick_interval)], tick_interval,
                                           timerange, env),
                 env)

(* ------------------------------- loading ------------------------------- *)

LoadResult(raised, ret, val, fs, fetched) ==
    [raised |-> raised, ret |-> ret, val |-> val, files |-> fs, fetched |-> fetched]

\* lines 58-62: nothing to return, or the rows trimmed to the range
TrimLoaded(fs, pair_data, timerange) ==
    IF pair_data.raised # "none" THEN LoadResult(pair_data.raised, "none", <<>>, fs, FALSE)
    ELSE IF pair_data.data = <<>> THEN LoadResult("none", "None", <<>>, fs, FALSE)
    ELSE IF ~Given(timerange) THEN LoadResult("none", "list", pair_data.data, fs, FALSE)
    ELSE IF TrimTickerlist(pair_data.data, timerange).raised # "none"
    THEN LoadResult(TrimTickerlist(pair_data.data, timerange).raised, "none", <<>>, fs, FALSE)
    ELSE LoadResult("none", "list", TrimTickerlist(pair_data.data, timerange).val, fs, FALSE)

\* load_tickerdata_file: the trimmed rows of the pair's file, or None
LoadTickerdataFile(fs, pair, ticker_interval, timerange, degrade) ==
    TrimLoaded(fs, FileLoadJson(fs[FileName(pair, ticker_interval)], degrade), timerange)

\* the parameter names of download_pair_history (lines 161-163) and the keywords
\* of its call in load_pair_history (lines 81-82)
DownloadParameters == {"datadir", "exchange", "pair", "tick_interval", "timerange"}
DownloadCallKeywords == {"datadir", "exchange", "pair", "ticker_interval", "timerange"}

\* lines 85-98: the loaded rows as a DataFrame (parse_ticker_dataframe), or None
HistoryOf(pairdata, fetched) ==
    IF pairdata.raised # "none"
    THEN LoadResult(pairdata.raised, "none", <<>>, pairdata.files, fetched)
    ELSE IF pairdata.val # <<>>
    THEN LoadResult("none", "DataFrame", pairdata.val, pairdata.files, fetched)
    ELSE LoadResult("none", "None", <<>>, pairdata.files, fetched)

\* line 83 after the download: load what is on disk now
LoadAfterDownload(sync, pair, ticker_interval, timerange, env) ==
    HistoryOf(LoadTickerdataFile(sync.files, pair, ticker_interval, timerange, env.degrade),
              sync.fetched)

\* lines 80-98 of load_pair_history: download, then load what is on disk
RefreshAndLoad(fs, pair, ticker_interval, timerange, env) ==
    IF ~(DownloadCallKeywords \subseteq DownloadParameters)
    THEN LoadResult("TypeError", "none", <<>>, fs, FALSE)
    ELSE LoadAfterDownload(DownloadPairHistory(fs, pair, ticker_interval, timerange, env),
                           pair, ticker_interval, timerange, env)

\* a variant that does not test the exchange before it refreshes
LoadPairHistoryNoExchangeTest(fs, pair, ticker_interval, timerange, refresh_pairs, exchange, env) ==
    IF refresh_pairs
    THEN RefreshAndLoad(fs, pair, ticker_interval, timerange, env)
    ELSE LoadResult("none", "None", <<>>, fs, FALSE)

\* load_pair_history: everything happens under `if refresh_pairs:`, a call without
\* refresh falls off the end of the function and returns None
LoadPairHistory(fs, pair, ticker_interval, timerange, refresh_pairs, exchange, env) ==
    IF refresh_pairs
    THEN IF ~exchange
         THEN LoadResult("OperationalException", "none", <<>>, fs, FALSE)
         ELSE RefreshAndLoad(fs, pair, ticker_interval, timerange, env)
    ELSE LoadResult("none", "None", <<>>, fs, FALSE)

\* the empty dict
EmptyDict == [q \in {} |-> <<>>]

\* lines 117-118: the history of the pair enters the result unless it is None; an
\* exception ends the call
Collect(acc, hist, i, pair) ==
    IF hist.raised # "none"
    THEN [acc EXCEPT !.raised = hist.raised, !.files = hist.files,
                     !.fetched = acc.fetched \/ hist.fetched]
    ELSE [acc EXCEPT !.files = hist.files,
                     !.fetched = acc.fetched \/ hist.fetched,
                     !.visited = i,
                     !.result = IF hist.ret = "None" THEN acc.result
                                ELSE [q \in DOMAIN acc.result \cup {pair} |->
                                        IF q = pair THEN hist.val ELSE acc.result[q]]]

\* one round of the loop of load_data (lines 112-118) for pairs[i]; acc is the
\* state after the rounds before it
LoadDataStep(acc, i, ticker_interval, pairs, refresh_pairs, exchange, timerange, env) ==
    IF acc.raised # "none" THEN acc
    ELSE Collect(acc,
                 LoadPairHistory(acc.files, pairs[i], ticker_interval, timerange,
                                 refresh_pairs, exchange, env),
                 i, pairs[i])

\* load_data: the mapping pair -> history of the pairs that have one
LoadData(fs, ticker_interval, pairs, refresh_pairs, exchange, timerange, env) ==
    LET after[i \in 0..Len(pairs)] ==
            IF i = 0
            THEN [raised |-> "none", result |-> EmptyDict, files |-> fs, fetched |-> FALSE,
                  visited |-> 0]
            ELSE LoadDataStep(after[i - 1], i, ticker_interval, pairs, refresh_pairs,
                              exchange, timerange, env)
    IN  after[Len(pairs)]

\* DataProvider.historic_ohlcv: load_pair_history without refresh and without exchange
HistoricOhlcv(fs, pair, ticker_interval) ==
    LoadPairHistory(fs, pair, ticker_interval, DefaultTimeRange, FALSE, FALSE, QuietEnv)

(* ------------------------------- the state ----------------------------- *)

\* files:  the data directory, file name -> content
\* remote: the candles the exchange holds (for every pair)
\* op:     the call that has just run, with its arguments, what its surroundings
\*         contributed, the data directory before it (pre) and what it returned
\*         or raised; kind "none" once the caller has taken the result, and
\*         then `synced` still names the pair of a download that ran clean
\* nops:   the number of calls so far
\* runs:   per caller, the call of download_pair_history it is in: the line it
\*         has reached (pc) and the locals of the call; used where callers run
\*         side by side, and constant where the calls run one after the other

NoCall ==
    [kind |-> "none", pair |-> <<>>, pairs |-> <<>>, timerange |-> NoTimeRange,
     refresh |-> FALSE, exchange |-> FALSE, env |-> QuietEnv, pre |-> files,
     ret |-> "none", raised |-> "none", val |-> <<>>, result |-> EmptyDict, visited |-> 0,
     fetched |-> FALSE, since |-> 0 - 1, trusted |-> <<>>, new_data |-> <<>>,
     caught |-> "none", tickerlist |-> <<>>, again |-> FALSE, first |-> <<>>,
     synced |-> <<>>]

\* the callers (threads or processes) that share the data directory
Callers == {1, 2}

NoRun ==
    [pc |-> "idle", pair |-> <<>>, timerange |-> NoTimeRange, env |-> QuietEnv,
     data |-> <<>>, since_ms |-> None,
     new_data |-> <<>>, ret |-> "none", caught |-> "none"]

NoRuns == [c \in Callers |-> NoRun]

\* the contents a cache file starts with
InitContents == {AbsentFile, CorruptFile} \cup {JsonFile(d) : d \in IncSeqs(MaxLen)}
\* the contents the file of the pair c/d starts with
OtherContents == {CorruptFile, JsonFile(<<1000, 1300, 1600>>)}

Init ==
    /\ files \in {f \in [FileNames -> InitContents] :
                    f[FileName(PairCD, "5m")] \in OtherContents}
    /\ remote \in IncSeqs(MaxFetch)
    /\ op = [NoCall EXCEPT !.pre = files]
    /\ nops = 0
    /\ runs = NoRuns

\* the calls run one after the other
Idle == op.kind = "none" /\ nops < MaxOps

\* what the surroundings can contribute to a download that starts from `file`
SyncEnvs(file) ==
    {Env(n, remote, f, g) : n \in Nows, f \in Faults,
                            g \in IF file.st = "corrupt" THEN BOOLEAN ELSE {TRUE}}

\* a call of download_pair_history
Sync ==
    /\ Idle
    /\ \E pair \in Pairs, tick_interval \in Intervals, timerange \in SyncRanges :
         \E env \in SyncEnvs(files[FileName(pair, tick_interval)]) :
           LET r == DownloadPairHistory(files, pair, tick_interval, timerange, env)
           IN  /\ files' = r.files
               /\ op' = [NoCall EXCEPT !.kind = "download_pair_history", !.pair = pair,
                                        !.timerange = timerange, !.exchange = TRUE,
                                        !.env = env, !.pre = files,
                                        !.ret = IF r.ret THEN "True" ELSE "False",
                                        !.fetched = r.fetched, !.since = r.since,
                                        !.trusted = r.trusted, !.new_data = r.new_data,
                                        !.caught = r.caught]
    /\ nops' = nops + 1
    /\ UNCHANGED <<remote, runs>>

\* what the surroundings can contribute to a load of the pairs' histories
LoadEnvs(refresh_pairs, exchange) ==
    {Env(n, remote, f, TRUE) : n \in Nows,
                               f \in IF refresh_pairs /\ exchange THEN {"none", "fetch"}
                                      ELSE {"none"}}

\* the lists of pairs handed to load_data
PairLists == {<<p, q>> : p, q \in Pairs} \ {<<p, p>> : p \in Pairs}

\* a call of load_pair_history
LoadOne ==
    /\ Idle
    /\ \E pair \in Pairs, ticker_interval \in Intervals, timerange \in LoadRanges,
          refresh_pairs \in BOOLEAN, exchange \in BOOLEAN :
         \E env \in LoadEnvs(refresh_pairs, exchange) :
           LET r == LoadPairHistory(files, pair, ticker_interval, timerange,
                                    refresh_pairs, exchange, env)
           IN  /\ files' = r.files
               /\ op' = [NoCall EXCEPT !.kind = "load_pair_history", !.pair = pair,
                                        !.timerange = timerange, !.refresh = refresh_pairs,
                                        !.exchange = exchange, !.env = env, !.pre = files,
                                        !.ret = r.ret, !.raised = r.raised, !.val = r.val,
                                        !.fetched = r.fetched]
    /\ nops' = nops + 1
    /\ UNCHANGED <<remote, runs>>

\* a call of load_data
LoadMany ==
    /\ Idle
    /\ \E pairs \in PairLists, ticker_interval \in Intervals, timerange \in LoadRanges,
          refresh_pairs \in BOOLEAN, exchange \in BOOLEAN :
         \E env \in LoadEnvs(refresh_pairs, exchange) :
           LET r == LoadData(files, ticker_interval, pairs, refresh_pairs, exchange,
                             timerange, env)
           IN  /\ files' = r.files
               /\ op' = [NoCall EXCEPT !.kind = "load_data", !.pairs = pairs,
                                        !.timerange = timerange, !.refresh = refresh_pairs,
                                        !.exchange = exchange, !.env = env, !.pre = files,
                                        !.ret = IF r.raised = "none" THEN "dict" ELSE "none",
                                        !.raised = r.raised, !.result = r.result,
                                        !.visited = r.visited, !.fetched = r.fetched]
    /\ nops' = nops + 1
    /\ UNCHANGED <<remote, runs>>

\* a call of load_tickerdata_file
LoadFile ==
    /\ Idle
    /\ \E pair \in Pairs, ticker_interval \in Intervals, timerange \in FileRanges :
         \E degrade \in IF files[FileName(pair, ticker_interval)].st = "corrupt"
                         THEN BOOLEAN ELSE {TRUE} :
           LET r == LoadTickerdataFile(files, pair, ticker_interval, timerange, degrade)
           IN  /\ files' = r.files
               /\ op' = [NoCall EXCEPT !.kind = "load_tickerdata_file", !.pair = pair,
                                        !.timerange = timerange,
                                        !.env = Env(0, <<>>, "none", degrade), !.pre = files,
                                        !.ret = r.ret, !.raised = r.raised, !.val = r.val]
    /\ nops' = nops + 1
    /\ UNCHANGED <<remote, runs>>

\* a call of DataProvider.historic_ohlcv
Historic ==
    /\ Idle
    /\ \E pair \in Pairs, ticker_interval \in Intervals :
           LET r == HistoricOhlcv(files, pair, ticker_interval)
           IN  /\ files' = r.files
               /\ op' = [NoCall EXCEPT !.kind = "historic_ohlcv", !.pair = pair,
                                        !.timerange = DefaultTimeRange, !.pre = files,
                                        !.ret = r.ret, !.raised = r.raised, !.val = r.val,
                                        !.fetched = r.fetched]
    /\ nops' = nops + 1
    /\ UNCHANGED <<remote, runs>>

\* the caller takes the result
Return ==
    /\ op.kind # "none"
    /\ op.kind # "trim_tickerlist"
    /\ op' = [NoCall EXCEPT !.pre = files,
                            !.synced = IF /\ op.kind = "download_pair_history"
                                          /\ op.timerange = NoTimeRange
                                          /\ op.env.fault = "none"
                                       THEN op.pair ELSE <<>>]
    /\ UNCHANGED <<files, remote, nops, runs>>

Next == Sync \/ LoadOne \/ LoadMany \/ LoadFile \/ Historic \/ Return

Spec == Init /\ [][Next]_vars

(* ------------------- trim_tickerlist on its own ------------------------ *)

\* the ticker lists handed to trim_tickerlist: the ascending ones and the
\* two-row lists in any order
TrimLists == IncSeqsOf(TrimStamps, MaxLen) \cup {<<a, b>> : a, b \in TrimStamps}

InitTrim ==
    /\ files = [f \in FileNames |-> AbsentFile]
    /\ remote = <<>>
    /\ nops = 0
    /\ runs = NoRuns
    /\ \E tickerlist \in TrimLists, timerange \in TrimRanges :
         op = [NoCall EXCEPT !.kind = "trim_tickerlist", !.tickerlist = tickerlist,
                             !.timerange = timerange, !.ret = "pending"]

\* trim_tickerlist runs on the list and the range stored in op
Trim ==
    /\ op.kind = "trim_tickerlist" /\ op.ret = "pending"
    /\ LET r == TrimTickerlist(op.tickerlist, op.timerange)
       IN  op' = [op EXCEPT !.ret = IF r.raised = "none" THEN "list" ELSE "none",
                            !.raised = r.raised, !.val = r.val]
    /\ UNCHANGED <<files, remote, nops, runs>>

\* the caller trims what it got (first) once more, with the same range
TrimAgain ==
    /\ op.kind = "trim_tickerlist" /\ op.ret = "list" /\ ~op.again
    /\ LET r == TrimTickerlist(op.val, op.timerange)
       IN  op' = [op EXCEPT !.again = TRUE, !.first = op.val,
                            !.ret = IF r.raised = "none" THEN "list" ELSE "none",
                            !.raised = r.raised, !.val = r.val]
    /\ UNCHANGED <<files, remote, nops, runs>>

NextTrim == Trim \/ TrimAgain

SpecTrim == InitTrim /\ [][NextTrim]_vars

(* ----------- download_pair_history by callers side by side ------------- *)

\* The function takes no lock and reads and writes the file in separate calls, so
\* callers that share the data directory advance independently from one blocking
\* call to the next: the read of the cache (line 182), the request to the exchange
\* (line 187) and the write of the file (line 196).

\* the contents a cache file starts with here
RunContents == {AbsentFile, JsonFile(<<1000, 1300, 1600>>), JsonFile(<<1300, 1600>>)}
\* the ranges handed to the download here
RunRanges == {NoTimeRange, TimeRange("date", "none", 1, 0)}

InitRuns ==
    /\ files \in {f \in [FileNames -> RunContents] :
                    f[FileName(PairCD, "5m")] = JsonFile(<<1000, 1300, 1600>>)}
    /\ remote \in IncSeqs(MaxFetch)
    /\ op = [NoCall EXCEPT !.pre = files]
    /\ nops = 0
    /\ runs = NoRuns

\* caller c calls download_pair_history, once
Call(c) ==
    /\ runs[c].pc = "idle"
    /\ \E pair \in Pairs, timerange \in RunRanges, n \in Nows, f \in Faults :
         runs' = [runs EXCEPT ![c] = [NoRun EXCEPT !.pc = "load", !.pair = pair,
                                                   !.timerange = timerange,
                                                   !.env = Env(n, remote, f, TRUE)]]
    /\ nops' = nops + 1
    /\ UNCHANGED <<files, remote, op>>

\* what lines 182-184 leave in the locals of a call
Loaded(run, cached) ==
    IF cached.raised # "none"
    THEN [run EXCEPT !.pc = "done", !.ret = "False", !.caught = cached.raised]
    ELSE IF cached.data # <<>> /\ Len(cached.data) < 2
    THEN [run EXCEPT !.pc = "done", !.ret = "False", !.caught = "IndexError",
                     !.data = cached.data]
    ELSE [run EXCEPT !.pc = "fetch", !.data = cached.data, !.since_ms = cached.since_ms]

\* lines 182-184: caller c reads the cache file as it is now
LoadCache(c) ==
    /\ runs[c].pc = "load"
    /\ runs' = [runs EXCEPT ![c] =
                  Loaded(runs[c], LoadCachedDataForUpdating(files[FileName(runs[c].pair, "5m")],
                                                            "5m", runs[c].timerange,
                                                            runs[c].env))]
    /\ UNCHANGED <<files, remote, op, nops>>

\* what lines 187-190 leave in the locals of a call
Fetched(run) ==
    IF run.env.fault = "fetch"
    THEN [run EXCEPT !.pc = "done", !.ret = "False", !.caught = "ExchangeError"]
    ELSE [run EXCEPT !.pc = "dump",
                     !.new_data = GetHistory(run.env, FetchSince(run.since_ms, run.env.now))]

\* lines 187-190: caller c asks the exchange
Fetch(c) ==
    /\ runs[c].pc = "fetch"
    /\ runs' = [runs EXCEPT ![c] = Fetched(runs[c])]
    /\ UNCHANGED <<files, remote, op, nops>>

\* what lines 191-201 leave in the locals of a call
Dumped(run, r) ==
    [run EXCEPT !.pc = "done", !.ret = IF r.ret THEN "True" ELSE "False", !.caught = r.caught]

\* lines 191-201: caller c extends its rows by the answer and writes the file
Dump(c) ==
    /\ runs[c].pc = "dump"
    /\ LET r == MergeAndDump(files, FileName(runs[c].pair, "5m"), runs[c].data,
                             FetchSince(runs[c].since_ms, runs[c].env.now),
                             runs[c].new_data, runs[c].env.fault)
       IN  /\ files' = r.files
           /\ runs' = [runs EXCEPT ![c] = Dumped(runs[c], r)]
    /\ UNCHANGED <<remote, op, nops>>

NextRuns == \E c \in Callers : Call(c) \/ LoadCache(c) \/ Fetch(c) \/ Dump(c)

SpecRuns == InitRuns /\ [][NextRuns]_vars

(* ------------------------------ the claims ----------------------------- *)

IsSync == op.kind = "download_pair_history"
\* the cache file of the pair of the last call, before and after the call
PreFile == op.pre[FileName(op.pair, "5m")]
PostFile == files[FileName(op.pair, "5m")]
\* the rows a file holds (none when there is no file or it is not JSON)
Rows(file) == IF file.st = "json" THEN file.data ELSE <<>>

\* C1: a download without TimeRange that starts from a cache of n >= 1 rows, with
\* an exchange that keeps its contract and a write that works, returns True and
\* leaves the cache without its last row followed by the fetched candles.
C1_DownloadAppendsFetched ==
    (/\ IsSync
     /\ op.timerange = NoTimeRange
     /\ op.env.fault = "none"
     /\ PreFile.st = "json" /\ Len(PreFile.data) >= 1)
    => (/\ op.ret = "True"
        /\ PostFile = JsonFile(Pop(PreFile.data) \o op.new_data))

\* C2: after every download that returns True the cache has strictly increasing
\* timestamps, also when the exchange answered with candles at or before the last
\* trusted row.
C2_SuccessfulDownloadIsIncreasing ==
    (IsSync /\ op.ret = "True") => StrictlyIncreasing(Rows(PostFile))

\* C3: with no cache, no TimeRange and an exchange that answers with no candles, a
\* download returns True and the cache is empty afterwards.
C3_EmptyFetchOnEmptyCacheSucceeds ==
    (/\ IsSync
     /\ op.timerange = NoTimeRange
     /\ op.env.fault = "none"
     /\ Rows(PreFile) = <<>> /\ PreFile.st # "corrupt"
     /\ op.fetched /\ op.new_data = <<>>)
    => (op.ret = "True" /\ Rows(PostFile) = <<>>)

\* C4: a second download of the same pair, right after a first one and with the
\* exchange holding the same candles as before, leaves every cache file as the
\* first download left it.
C4_SecondDownloadChangesNothing ==
    [][(/\ op.kind = "none" /\ op.synced # <<>>
        /\ op'.kind = "download_pair_history" /\ op'.pair = op.synced
        /\ op'.timerange = NoTimeRange /\ op'.env.fault = "none"
        /\ remote' = remote)
       => files' = files]_vars

\* C5: load_pair_history without refresh on a pair whose cache holds rows returns
\* those rows trimmed to the TimeRange, asks the exchange for nothing and leaves
\* the data directory as it was.
C5_LoadWithoutRefreshReturnsCache ==
    (/\ op.kind \in {"load_pair_history", "historic_ohlcv"}
     /\ ~op.refresh
     /\ Rows(PreFile) # <<>>)
    => (/\ op.raised = "none"
        /\ op.ret = "DataFrame"
        /\ op.val = TrimTickerlist(Rows(PreFile), op.timerange).val
        /\ ~op.fetched
        /\ files = op.pre)

\* C6: an exception of the exchange or of the write during a download ends the
\* download with False, and load_data with refresh gets through all its pairs
\* without raising.
C6_DownloadFailureNeverPropagates ==
    /\ (IsSync /\ op.env.fault \in {"fetch", "dump"}) => (op.ret = "False" /\ op.raised = "none")
    /\ (op.kind = "load_data" /\ op.refresh /\ op.exchange)
       => (op.raised = "none" /\ op.visited = Len(op.pairs))

\* the pairs of a list whose cache file holds rows
ValidPairs(pairs, fs) ==
    {pairs[i] : i \in {j \in DOMAIN pairs : Rows(fs[FileName(pairs[j], "5m")]) # <<>>}}

\* C7: load_data does not raise because of a pair it cannot load; without refresh
\* its result holds exactly the pairs whose cache file holds rows.
C7_LoadDataSkipsBadPairs ==
    /\ (op.kind = "load_data" /\ (op.refresh => op.exchange)) => op.raised = "none"
    /\ (op.kind = "load_data" /\ ~op.refresh)
       => DOMAIN op.result = ValidPairs(op.pairs, op.pre)

\* C8: load_pair_history with refresh and without an exchange raises
\* OperationalException before it downloads anything: the exchange is not asked
\* and the data directory is as it was.
C8_RefreshWithoutExchangeRaises ==
    (op.kind = "load_pair_history" /\ op.refresh /\ ~op.exchange)
    => (op.raised = "OperationalException" /\ ~op.fetched /\ files = op.pre)

C8_Witness ==
    /\ op.kind = "load_pair_history" /\ op.refresh /\ ~op.exchange
    /\ op.raised = "OperationalException"
    /\ Len(Rows(PreFile)) >= 2

IsTrimmed == op.kind = "trim_tickerlist" /\ op.ret # "pending"

\* the rows from the first one at or after limit on
RECURSIVE RowsFrom(_, _)
RowsFrom(tickerlist, limit) ==
    IF tickerlist = <<>> \/ tickerlist[1] >= limit THEN tickerlist
    ELSE RowsFrom(Tail(tickerlist), limit)

\* C9: trim_tickerlist with a date-typed start of startts returns the rows from the
\* first one whose timestamp is at least startts * 1000 on, and no error; none when
\* every row is earlier.
C9_DateStartKeepsRowsFromStart ==
    (IsTrimmed /\ ~op.again /\ op.timerange.starttype = "date")
    => (op.raised = "none" /\ op.val = RowsFrom(op.tickerlist, op.timerange.startts * 1000))

TrimInput == IF op.again THEN op.first ELSE op.tickerlist

\* the rows of s at the offsets a, a+1, ..., b-1 that s has (0 <= a)
RowsBetween(s, a, b) ==
    [j \in 1..Cardinality({i \in 1..Len(s) : a < i /\ i <= b}) |-> s[a + j]]

\* the offsets a range stands for on a list: a start of kind none is 0, an index is
\* taken as it is, a date is the offset of the first row at or after startts * 1000;
\* a stop of kind none is the length, an index is taken as it is
RangeStart(tickerlist, timerange) ==
    IF timerange.starttype = "index" THEN timerange.startts
    ELSE IF timerange.starttype = "date"
         THEN Len(tickerlist) - Len(RowsFrom(tickerlist, timerange.startts * 1000))
         ELSE 0
RangeStop(tickerlist, timerange) ==
    IF timerange.stoptype = "index" THEN timerange.stopts ELSE Len(tickerlist)

\* C11: on a non-empty list and for every range without a row count (a start of
\* kind none, index or date, a stop of kind none or index) trim_tickerlist raises
\* ValueError whenever the start offset of the range is greater than its stop
\* offset, and otherwise returns exactly the rows at the offsets from the start up
\* to, not including, the stop; it never returns rows for a start beyond the stop.
C11_StartBeyondStopRaises ==
    (/\ IsTrimmed /\ TrimInput # <<>>
     /\ op.timerange.starttype # "line" /\ op.timerange.stoptype # "line")
    => IF RangeStart(TrimInput, op.timerange) > RangeStop(TrimInput, op.timerange)
       THEN op.raised = "ValueError" /\ op.ret = "none"
       ELSE /\ op.raised = "none"
            /\ op.val = RowsBetween(TrimInput, RangeStart(TrimInput, op.timerange),
                                    RangeStop(TrimInput, op.timerange))

C13_OtherKeysUntouched ==
    IsSync => \A q \in Pairs \ {op.pair} : files[FileName(q, "5m")] = op.pre[FileName(q, "5m")]

\* a call that has read the cache and has neither written the file nor failed
InFlight(c) == runs[c].pc \in {"fetch", "dump"}

\* C14: no two calls of download_pair_history for the same (pair, interval) are
\* ever between their read of the cache and their write of the file at once.
C14_OneDownloadPerKeyInFlight ==
    \A c, d \in Callers :
        (c # d /\ InFlight(c) /\ InFlight(d)) => runs[c].pair # runs[d].pair

\* the cache file of the call of caller c
RunFile(c) == files[FileName(runs[c].pair, "5m")]

\* C15: whenever a call of download_pair_history reads a cache file that holds
\* rows, the rows it keeps (the trusted prefix) are a prefix of the file's rows
\* without at least the last one, and the read leaves every file as it was.
C15_LastCandleDropped ==
    [][\A c \in Callers :
         (/\ runs[c].pc = "load" /\ runs'[c].pc # "load"
          /\ RunFile(c).st = "json" /\ RunFile(c).data # <<>>)
         => (/\ files' = files
             /\ Len(runs'[c].data) < Len(RunFile(c).data)
             /\ runs'[c].data = SubSeq(RunFile(c).data, 1, Len(runs'[c].data)))]_vars

C15_Witness ==
    \E c \in Callers :
        /\ runs[c].pc = "fetch"
        /\ runs[c].data = <<1000, 1300>>
        /\ RunFile(c) = JsonFile(<<1000, 1300, 1600>>)

NowMs == op.env.now * 1000

\* C17: whenever a download without TimeRange that starts from a cold cache (no
\* file, no rows, or a single row) asks the exchange, the since_ms it passes is
\* now minus 30 days (of 1440 clock units), which is not later than now.
C17_ColdCursorIsThirtyDaysBack ==
    (/\ IsSync /\ op.timerange = NoTimeRange
     /\ Len(Rows(PreFile)) <= 1
     /\ op.fetched)
    => (op.since = NowMs - 30 * 1440 * 1000 /\ op.since <= NowMs)

\* C18: a download with a date-typed start whose startts * 1000 is earlier than the
\* first row it trusts (the file has two or more rows), with an exchange that
\* keeps its contract and a write that works, drops the cached rows, asks the
\* exchange with since_ms = startts * 1000 and leaves exactly the fetched candles
\* in the file.
C18_EarlierStartDownloadsAnew ==
    (/\ IsSync /\ op.env.fault = "none"
     /\ op.timerange.starttype = "date"
     /\ Len(Rows(PreFile)) >= 2
     /\ op.timerange.startts * 1000 < PreFile.data[1])
    => (/\ op.trusted = <<>>
        /\ op.fetched /\ op.since = op.timerange.startts * 1000
        /\ PostFile = JsonFile(op.new_data))

\* C19: a download that returns False because something before the write of the
\* file raised (the read of the cache, the exchange, a line in between) leaves
\* every file, the last row of the cache included, as it was before the call.
C19_FailedDownloadKeepsFiles ==
    (IsSync /\ op.ret = "False" /\ op.caught # "OSError") => files = op.pre

C19_Witness ==
    /\ IsSync /\ op.ret = "False" /\ op.caught = "ExchangeError"
    /\ op.trusted = <<1000, 1300>>
    /\ PreFile = JsonFile(<<1000, 1300, 1600>>)
    /\ PostFile = PreFile

\* every cache file that holds rows holds them in strictly increasing order
AllIncreasing == \A fn \in FileNames : StrictlyIncreasing(Rows(files[fn]))

\* the answer of the exchange in the call op: ascending, nothing before since_ms
KeepsContract(call) ==
    /\ StrictlyIncreasing(call.new_data)
    /\ \A i \in 1..Len(call.new_data) : call.new_data[i] >= call.since

\* C20: if every cache file is strictly increasing, a download (with any range)
\* whose exchange keeps its contract leaves every cache file strictly increasing;
\* so do, by induction, any number of downloads one after the other.
C20_DownloadsKeepFilesIncreasing ==
    [][(/\ AllIncreasing
        /\ op'.kind = "download_pair_history" => KeepsContract(op'))
       => AllIncreasing']_vars

C20_Witness ==
    /\ IsSync /\ op.ret = "True" /\ nops = 2
    /\ op.timerange.starttype = "date"
    /\ Len(Rows(PreFile)) >= 2 /\ op.trusted = <<>>
    /\ Len(op.new_data) = 2
    /\ PostFile # PreFile
    /\ AllIncreasing

====
